---------------------------- MODULE Spec2Model ----------------------------
(***************************************************************************)
(* Model of the SCSS class-name extraction of design-system-assistant.    *)
(*                                                                         *)
(* A JavaScript string is a sequence of one-character strings, so that the *)
(* regular expressions, split, trim and replace of the source are computed *)
(* character by character.  A JavaScript object is a sequence of           *)
(* [key, value] entries in insertion order.                                *)
(***************************************************************************)
EXTENDS Integers, Sequences, FiniteSets, TLC

VARIABLES files, fileIdx, phase, lastIndex, classNames, variables, outputs,
          initState, hasConfigurationCapability, scssFolder, scssClasses,
          clientConfig, clientFolders, runs, completions

vars == << files, fileIdx, phase, lastIndex, classNames, variables, outputs,
           initState, hasConfigurationCapability, scssFolder, scssClasses,
           clientConfig, clientFolders, runs, completions >>

passVars == << files, fileIdx, phase, lastIndex, classNames, variables, outputs >>

serverVars == << initState, hasConfigurationCapability, scssFolder, scssClasses,
                 clientConfig, clientFolders, runs, completions >>

---------------------------------------------------------------------------
(* Character classes of the regular expressions.                           *)

\* [0-9] and \d
Digit == {"0", "1", "2", "3", "4", "5", "6", "7", "8", "9"}

\* [a-zA-Z]
Letter ==
  {"a", "b", "c", "d", "e", "f", "g", "h", "i", "j", "k", "l", "m",
   "n", "o", "p", "q", "r", "s", "t", "u", "v", "w", "x", "y", "z",
   "A", "B", "C", "D", "E", "F", "G", "H", "I", "J", "K", "L", "M",
   "N", "O", "P", "Q", "R", "S", "T", "U", "V", "W", "X", "Y", "Z"}

\* [a-zA-Z0-9_-]
WordChar == Letter \cup Digit \cup {"_", "-"}

\* \s, and the characters trim() removes (the ones of the modelled alphabet)
Space == {" ", "\t", "\n", "\r"}

\* the characters "." does not match
LineTerminator == {"\n", "\r"}

\* ['"]
Quote == {"'", "\""}

---------------------------------------------------------------------------
(* String primitives.                                                      *)

\* s has p at (1-based) index i
HasAt(s, i, p) ==
  /\ i >= 1
  /\ i + Len(p) - 1 <= Len(s)
  /\ \A k \in 1..Len(p) : s[i + k - 1] = p[k]

\* the first index >= i that holds no character of class C (Len(s)+1 at the end)
RECURSIVE RunEnd(_, _, _)
RunEnd(s, i, C) ==
  IF i > Len(s) \/ s[i] \notin C THEN i ELSE RunEnd(s, i + 1, C)

\* the last index <= i that holds no character of class C (0 at the start)
RECURSIVE RunStart(_, _, _)
RunStart(s, i, C) ==
  IF i < 1 \/ s[i] \notin C THEN i ELSE RunStart(s, i - 1, C)

\* String.prototype.trim
trim(s) ==
  LET a == RunEnd(s, 1, Space)
      b == RunStart(s, Len(s), Space)
  IN  IF a > b THEN << >> ELSE SubSeq(s, a, b)

\* the least element of a non-empty set of indices
Least(S) == CHOOSE x \in S : \A y \in S : x <= y

\* the first index >= i holding character c (Len(s)+1 when there is none)
IndexOf(s, c, i) ==
  LET at == {j \in i..Len(s) : s[j] = c}
  IN  IF at = {} THEN Len(s) + 1 ELSE Least(at)

\* String.prototype.split(c) for a one-character separator
RECURSIVE split(_, _)
split(s, c) ==
  LET j == IndexOf(s, c, 1)
  IN  IF j > Len(s) THEN << s >>
      ELSE << SubSeq(s, 1, j - 1) >> \o split(SubSeq(s, j + 1, Len(s)), c)

\* s.replace(/['"]/g, '')
stripQuotes(s) == SelectSeq(s, LAMBDA ch : ch \notin Quote)

\* s.replace(/['"$]/g, '')
stripQuotesAndSigil(s) == SelectSeq(s, LAMBDA ch : ch \notin Quote \cup {"$"})

\* the elements of a sequence
Range(s) == {s[k] : k \in 1..Len(s)}

---------------------------------------------------------------------------
(* isValidClassName: some(pattern => pattern.test(name)) over the list.    *)

\* /^[0-9]+(?:px|rem)$/
IsSizeValue(name) ==
  LET e == RunEnd(name, 1, Digit)
  IN  /\ e > 1
      /\ SubSeq(name, e, Len(name)) \in {<< "p", "x" >>, << "r", "e", "m" >>}

\* /^\d+$/
IsNumber(name) == Len(name) >= 1 /\ RunEnd(name, 1, Digit) = Len(name) + 1

isValidClassName(name) ==
  ~ \/ (Len(name) >= 1 /\ name[1] = "$")                       \* /^\$/
    \/ (Len(name) >= 1 /\ name[1] = "#")                       \* /^#/
    \/ (\E k \in 1..Len(name) : name[k] \in {"$", "%"})        \* /\$|%/
    \/ (Len(name) >= 1 /\ name[1] \in Digit)                   \* /^[0-9]/
    \/ (Len(name) >= 1 /\ name[1] = "-")                       \* /^-/
    \/ (\E k \in 1..Len(name) : name[k] \in Space)             \* /\s/
    \/ (\E k \in 1..Len(name) : name[k] \in {"(", ")"})        \* /[()]/
    \/ (Len(name) >= 1 /\ name[Len(name)] = ";")               \* /;$/
    \/ IsSizeValue(name)
    \/ IsNumber(name)

---------------------------------------------------------------------------
(* JavaScript objects: entries [key, value] in insertion order.            *)

EmptyObject == << >>

objHas(obj, key) == \E k \in 1..Len(obj) : obj[k].key = key

objGet(obj, key) == obj[CHOOSE k \in 1..Len(obj) : obj[k].key = key].value

\* obj[key] = value: an existing property keeps its place
objSet(obj, key, value) ==
  IF objHas(obj, key)
  THEN [k \in 1..Len(obj) |->
          IF obj[k].key = key THEN [key |-> key, value |-> value] ELSE obj[k]]
  ELSE Append(obj, [key |-> key, value |-> value])

\* a canonical numeric string below 2^32 - 1: an array index
MaxIndexText == << "4", "2", "9", "4", "9", "6", "7", "2", "9", "4" >>

DigitRank(ch) ==
  CASE ch = "0" -> 0 [] ch = "1" -> 1 [] ch = "2" -> 2 [] ch = "3" -> 3
    [] ch = "4" -> 4 [] ch = "5" -> 5 [] ch = "6" -> 6 [] ch = "7" -> 7
    [] ch = "8" -> 8 [] ch = "9" -> 9

\* a < b for two digit strings of the same length
RECURSIVE DigitsLess(_, _)
DigitsLess(a, b) ==
  IF a = << >> THEN FALSE
  ELSE IF a[1] # b[1] THEN DigitRank(a[1]) < DigitRank(b[1])
  ELSE DigitsLess(Tail(a), Tail(b))

IndexLess(a, b) ==
  \/ Len(a) < Len(b)
  \/ (Len(a) = Len(b) /\ DigitsLess(a, b))

IsArrayIndex(key) ==
  /\ IsNumber(key)
  /\ (key[1] = "0" => Len(key) = 1)
  /\ \/ Len(key) < Len(MaxIndexText)
     \/ (Len(key) = Len(MaxIndexText) /\ ~ DigitsLess(MaxIndexText, key))

\* a sequence of array indices, ascending
RECURSIVE SortIndices(_)
SortIndices(ks) ==
  IF ks = << >> THEN << >>
  ELSE LET m == CHOOSE i \in 1..Len(ks) :
                  \A j \in 1..Len(ks) : ~ IndexLess(ks[j], ks[i])
       IN  << ks[m] >> \o
           SortIndices(SubSeq(ks, 1, m - 1) \o SubSeq(ks, m + 1, Len(ks)))

\* Object.keys: the array indices ascending, then the other keys as inserted
ObjectKeys(obj) ==
  LET ks == [k \in 1..Len(obj) |-> obj[k].key]
  IN  SortIndices(SelectSeq(ks, IsArrayIndex)) \o
      SelectSeq(ks, LAMBDA k : ~ IsArrayIndex(k))

\* Set.prototype.add on a Set kept as the sequence of its members as inserted
SetAdd_moveToEnd(set, x) == Append(SelectSeq(set, LAMBDA y : y # x), x)

SetAdd(set, x) == IF x \in Range(set) THEN set ELSE Append(set, x)

---------------------------------------------------------------------------
(* The literal texts of the regular expressions and of the mixin table.    *)

\* !default;
s_default ==
  << "!", "d", "e", "f", "a", "u", "l", "t", ";" >>

\* @include
s_include ==
  << "@", "i", "n", "c", "l", "u", "d", "e" >>

\* ds4-scale-class
s_ds4_scale_class ==
  << "d", "s", "4", "-", "s", "c", "a", "l", "e", "-", "c", "l", "a", "s",
     "s" >>

\* ds4-scale-font-class
s_ds4_scale_font_class ==
  << "d", "s", "4", "-", "s", "c", "a", "l", "e", "-", "f", "o", "n", "t",
     "-", "c", "l", "a", "s", "s" >>

\* style-class
s_style_class ==
  << "s", "t", "y", "l", "e", "-", "c", "l", "a", "s", "s" >>

\* ds4-scale-border-radius-class
s_ds4_scale_border_radius_class ==
  << "d", "s", "4", "-", "s", "c", "a", "l", "e", "-", "b", "o", "r", "d",
     "e", "r", "-", "r", "a", "d", "i", "u", "s", "-", "c", "l", "a", "s",
     "s" >>

\* ds4-border-radius-class
s_ds4_border_radius_class ==
  << "d", "s", "4", "-", "b", "o", "r", "d", "e", "r", "-", "r", "a", "d",
     "i", "u", "s", "-", "c", "l", "a", "s", "s" >>

\* ds4-scale-
s_ds4_scale_ ==
  << "d", "s", "4", "-", "s", "c", "a", "l", "e", "-" >>

\* file://
s_file_scheme ==
  << "f", "i", "l", "e", ":", "/", "/" >>

\* .scss
s_scss_ext ==
  << ".", "s", "c", "s", "s" >>

---------------------------------------------------------------------------
(* RegExp.prototype.exec of the three global regular expressions.  The     *)
(* argument lastIndex is the number of characters already consumed; a      *)
(* match reports the lastIndex it leaves (field end).  None of the three   *)
(* patterns needs backtracking into a greedy run: the character after a    *)
(* run is never of the run's class.                                        *)

NoMatch == [found |-> FALSE]

\* ([\s\S]*?)\)\s*!default; : the index of the first ")" from q on that is
\* followed by optional white space and "!default;" (Len(c)+1: none)
variableBodyEnd(c, q) ==
  LET at == {j \in q..Len(c) :
               c[j] = ")" /\ HasAt(c, RunEnd(c, j + 1, Space), s_default)}
  IN  IF at = {} THEN Len(c) + 1 ELSE Least(at)

\* /\$([a-zA-Z0-9_-]+):\s*\(([\s\S]*?)\)\s*!default;/ anchored at index i
variableMatchAt(c, i) ==
  LET e == RunEnd(c, i + 1, WordChar)
      p == RunEnd(c, e + 1, Space)
      q == variableBodyEnd(c, p + 1)
  IN  IF /\ c[i] = "$"
         /\ e > i + 1
         /\ e <= Len(c) /\ c[e] = ":"
         /\ p <= Len(c) /\ c[p] = "("
         /\ q <= Len(c)
      THEN [found |-> TRUE,
            variableName |-> SubSeq(c, i + 1, e - 1),
            variableContent |-> SubSeq(c, p + 1, q - 1),
            end |-> RunEnd(c, q + 1, Space) + Len(s_default) - 1]
      ELSE NoMatch

\* the leftmost match that starts after the first `last` characters
variableRegexExec(c, last) ==
  LET at == {i \in (last + 1)..Len(c) : variableMatchAt(c, i).found}
  IN  IF at = {} THEN NoMatch ELSE variableMatchAt(c, Least(at))

\* (.*?)\); : the index of the first ")" from q on that is followed by ";",
\* with no line terminator before it (Len(c)+1: none)
mixinArgsEnd(c, q) ==
  LET at == {j \in q..(Len(c) - 1) : c[j] = ")" /\ c[j + 1] = ";"}
      e  == IF at = {} THEN Len(c) + 1 ELSE Least(at)
  IN  IF e <= Len(c) /\ \A j \in q..(e - 1) : c[j] \notin LineTerminator
      THEN e ELSE Len(c) + 1

\* /@include\s+([a-zA-Z0-9_-]+)\((.*?)\);/ anchored at index i
mixinMatchAt(c, i) ==
  LET w == i + Len(s_include)
      p == RunEnd(c, w, Space)
      e == RunEnd(c, p, WordChar)
      q == mixinArgsEnd(c, e + 1)
  IN  IF /\ HasAt(c, i, s_include)
         /\ p > w
         /\ e > p
         /\ e <= Len(c) /\ c[e] = "("
         /\ q <= Len(c)
      THEN [found |-> TRUE,
            mixinName |-> SubSeq(c, p, e - 1),
            mixinArgs |-> SubSeq(c, e + 1, q - 1),
            end |-> q + 1]
      ELSE NoMatch

mixinCallRegexExec(c, last) ==
  LET at == {i \in (last + 1)..Len(c) : mixinMatchAt(c, i).found}
  IN  IF at = {} THEN NoMatch ELSE mixinMatchAt(c, Least(at))

\* /\.([a-zA-Z0-9_-]+)\s*{/ anchored at index i
classMatchAt(c, i) ==
  LET e == RunEnd(c, i + 1, WordChar)
      p == RunEnd(c, e, Space)
  IN  IF /\ c[i] = "."
         /\ e > i + 1
         /\ p <= Len(c) /\ c[p] = "{"
      THEN [found |-> TRUE, className |-> SubSeq(c, i + 1, e - 1), end |-> p]
      ELSE NoMatch

classRegexExec(c, last) ==
  LET at == {i \in (last + 1)..Len(c) : classMatchAt(c, i).found}
  IN  IF at = {} THEN NoMatch ELSE classMatchAt(c, Least(at))

---------------------------------------------------------------------------
(* parseVariableContent, addClassesFromVariable, processMixinCall.         *)

\* the value of a map entry that has no colon
Undefined == [defined |-> FALSE, text |-> << >>]

\* entries.forEach(entry => result[key.replace(/['"]/g, '')] = value)
RECURSIVE parseVariableEntries(_, _)
parseVariableEntries(entries, result) ==
  IF entries = << >> THEN result
  ELSE LET parts == split(trim(Head(entries)), ":")
           key   == trim(parts[1])
           value == IF Len(parts) >= 2
                    THEN [defined |-> TRUE, text |-> trim(parts[2])]
                    ELSE Undefined
       IN  parseVariableEntries(Tail(entries),
                                objSet(result, stripQuotes(key), value))

parseVariableContent(content) ==
  parseVariableEntries(split(content, ","), EmptyObject)

\* the classNames.add of a candidate behind its isValidClassName test
addIfValid_unfiltered(set, name) == SetAdd(set, name)

addIfValid(set, name) ==
  IF isValidClassName(name) THEN SetAdd(set, name) ELSE set

RECURSIVE addEach(_, _)
addEach(set, names) ==
  IF names = << >> THEN set
  ELSE addEach(addIfValid(set, Head(names)), Tail(names))

\* entries.forEach(entry => { const [key] = entry.split(':'); if (key) ... })
RECURSIVE addClassesFromEntries(_, _)
addClassesFromEntries(entries, set) ==
  IF entries = << >> THEN set
  ELSE LET key      == split(trim(Head(entries)), ":")[1]
           cleanKey == trim(stripQuotes(key))
       IN  addClassesFromEntries(
             Tail(entries),
             IF key # << >> THEN addIfValid(set, cleanKey) ELSE set)

addClassesFromVariable(content, set) ==
  addClassesFromEntries(split(content, ","), set)

\* mixinArgs.split(',').map(arg => arg.trim().replace(/['"]/g, ''))
mixinArgList(mixinArgs) ==
  LET pieces == split(mixinArgs, ",")
  IN  [k \in 1..Len(pieces) |-> stripQuotes(trim(pieces[k]))]

\* `${name}${key}-${scaleKey}` for every key, and under it every scaleKey
RECURSIVE scaleClassNames(_, _, _)
scaleClassNames(name, keys, scaleKeys) ==
  IF keys = << >> THEN << >>
  ELSE [k \in 1..Len(scaleKeys) |-> name \o Head(keys) \o << "-" >> \o scaleKeys[k]]
       \o scaleClassNames(name, Tail(keys), scaleKeys)

\* variables[mapName] is truthy: the object holds a map of that name
mapResolves(vs, mapName) == objHas(vs, mapName)

processMixinCall(mixinName, mixinArgs, vs, set) ==
  LET args == mixinArgList(mixinArgs)
  IN  CASE mixinName = s_ds4_scale_class ->
             IF /\ Len(args) >= 3
                /\ mapResolves(vs, args[2])
                /\ mapResolves(vs, args[3])
             THEN addEach(set, scaleClassNames(args[1],
                                               ObjectKeys(objGet(vs, args[2])),
                                               ObjectKeys(objGet(vs, args[3]))))
             ELSE set
        [] mixinName \in {s_ds4_scale_font_class, s_style_class} ->
             IF Len(args) >= 2 /\ mapResolves(vs, args[2])
             THEN addEach(set, ObjectKeys(objGet(vs, args[2])))
             ELSE set
        [] mixinName \in {s_ds4_scale_border_radius_class,
                          s_ds4_border_radius_class} ->
             IF Len(args) >= 1 /\ mapResolves(vs, args[1])
             THEN addEach(set, ObjectKeys(objGet(vs, args[1])))
             ELSE set
        [] OTHER -> set

---------------------------------------------------------------------------
(* parseScssFiles.  Its locals are classNames (a Set) and variables (an    *)
(* object declared before the loop over the files, so one table serves     *)
(* every file of a call).                                                  *)

\* const classNames: Set<string> = new Set()
entryClassNames == << >>

\* let variables = {} at the entry of a call; prev is the table the call
\* before it left behind, which a local declaration does not see
entryVariables_moduleLevel(prev) == prev

entryVariables(prev) == EmptyObject

\* body of the while loop over variableRegex
variableBody(m, L) ==
  [classNames |-> addClassesFromVariable(m.variableContent, L.classNames),
   variables  |-> objSet(L.variables, m.variableName,
                         parseVariableContent(m.variableContent))]

\* body of the while loop over mixinCallRegex
mixinBody(m, L) ==
  [classNames |-> processMixinCall(m.mixinName, m.mixinArgs,
                                   L.variables, L.classNames),
   variables  |-> L.variables]

\* body of the while loop over classRegex
classBody(m, L) ==
  [classNames |-> addIfValid(L.classNames, m.className),
   variables  |-> L.variables]

RECURSIVE variableLoop(_, _, _)
variableLoop(c, last, L) ==
  LET m == variableRegexExec(c, last)
  IN  IF m.found THEN variableLoop(c, m.end, variableBody(m, L)) ELSE L

RECURSIVE mixinLoop(_, _, _)
mixinLoop(c, last, L) ==
  LET m == mixinCallRegexExec(c, last)
  IN  IF m.found THEN mixinLoop(c, m.end, mixinBody(m, L)) ELSE L

RECURSIVE classLoop(_, _, _)
classLoop(c, last, L) ==
  LET m == classRegexExec(c, last)
  IN  IF m.found THEN classLoop(c, m.end, classBody(m, L)) ELSE L

\* for (const file of files) { ... }
RECURSIVE fileLoop(_, _)
fileLoop(fs, L) ==
  IF fs = << >> THEN L
  ELSE fileLoop(Tail(fs),
                classLoop(Head(fs), 0,
                          mixinLoop(Head(fs), 0,
                                    variableLoop(Head(fs), 0, L))))

\* one whole call: Array.from(classNames)
parseScssFiles(fs) ==
  fileLoop(fs, [classNames |-> entryClassNames,
                variables  |-> entryVariables(EmptyObject)]).classNames

---------------------------------------------------------------------------
(* The stylesheets the model reads: the examples of the documentation and  *)
(* texts that exercise every rule of the filter, malformed declarations    *)
(* and invocations, and maps that are used in another file.  No text holds *)
(* an underscore, a backslash or a bracket, so no map is named after a     *)
(* property every JavaScript object inherits.                              *)

\* .lg { }\n$spacing: (sm: 4px, lg: 16px) !default;\n@include style-class($foo, $spacing);
Unit_spacing ==
  << ".", "l", "g", " ", "{", " ", "}", "\n", "$", "s", "p", "a", "c", "i",
     "n", "g", ":", " ", "(", "s", "m", ":", " ", "4", "p", "x", ",", " ",
     "l", "g", ":", " ", "1", "6", "p", "x", ")", " ", "!", "d", "e", "f",
     "a", "u", "l", "t", ";", "\n", "@", "i", "n", "c", "l", "u", "d", "e",
     " ", "s", "t", "y", "l", "e", "-", "c", "l", "a", "s", "s", "(", "$",
     "f", "o", "o", ",", " ", "$", "s", "p", "a", "c", "i", "n", "g", ")",
     ";" >>

\* .button-primary { color: red; }
Unit_button ==
  << ".", "b", "u", "t", "t", "o", "n", "-", "p", "r", "i", "m", "a", "r",
     "y", " ", "{", " ", "c", "o", "l", "o", "r", ":", " ", "r", "e", "d",
     ";", " ", "}" >>

\* $color: (red: #f00, blue: #00f) !default;\n$scale: (1: 1x, 2: 2x) !default;\n@include ds4-scale-class("btn-", $color, $scale);
Unit_specMixin ==
  << "$", "c", "o", "l", "o", "r", ":", " ", "(", "r", "e", "d", ":", " ",
     "#", "f", "0", "0", ",", " ", "b", "l", "u", "e", ":", " ", "#", "0",
     "0", "f", ")", " ", "!", "d", "e", "f", "a", "u", "l", "t", ";", "\n",
     "$", "s", "c", "a", "l", "e", ":", " ", "(", "1", ":", " ", "1", "x",
     ",", " ", "2", ":", " ", "2", "x", ")", " ", "!", "d", "e", "f", "a",
     "u", "l", "t", ";", "\n", "@", "i", "n", "c", "l", "u", "d", "e", " ",
     "d", "s", "4", "-", "s", "c", "a", "l", "e", "-", "c", "l", "a", "s",
     "s", "(", "\"", "b", "t", "n", "-", "\"", ",", " ", "$", "c", "o", "l",
     "o", "r", ",", " ", "$", "s", "c", "a", "l", "e", ")", ";" >>

\* $tone: (red: #f00, blue: #00f) !default;\n$step: (2: 2x, 1: 1x) !default;\n@include ds4-scale-class("btn-", tone, step);
Unit_bareMixin ==
  << "$", "t", "o", "n", "e", ":", " ", "(", "r", "e", "d", ":", " ", "#",
     "f", "0", "0", ",", " ", "b", "l", "u", "e", ":", " ", "#", "0", "0",
     "f", ")", " ", "!", "d", "e", "f", "a", "u", "l", "t", ";", "\n", "$",
     "s", "t", "e", "p", ":", " ", "(", "2", ":", " ", "2", "x", ",", " ",
     "1", ":", " ", "1", "x", ")", " ", "!", "d", "e", "f", "a", "u", "l",
     "t", ";", "\n", "@", "i", "n", "c", "l", "u", "d", "e", " ", "d", "s",
     "4", "-", "s", "c", "a", "l", "e", "-", "c", "l", "a", "s", "s", "(",
     "\"", "b", "t", "n", "-", "\"", ",", " ", "t", "o", "n", "e", ",", " ",
     "s", "t", "e", "p", ")", ";" >>

\* $m: (a: 1, b: 2) !default; $n: (x: 1) !default;
Unit_maps ==
  << "$", "m", ":", " ", "(", "a", ":", " ", "1", ",", " ", "b", ":", " ",
     "2", ")", " ", "!", "d", "e", "f", "a", "u", "l", "t", ";", " ", "$",
     "n", ":", " ", "(", "x", ":", " ", "1", ")", " ", "!", "d", "e", "f",
     "a", "u", "l", "t", ";" >>

\* @include ds4-scale-class(u-, m, n);\n@include ds4-scale-font-class(t, m);
Unit_useMaps ==
  << "@", "i", "n", "c", "l", "u", "d", "e", " ", "d", "s", "4", "-", "s",
     "c", "a", "l", "e", "-", "c", "l", "a", "s", "s", "(", "u", "-", ",",
     " ", "m", ",", " ", "n", ")", ";", "\n", "@", "i", "n", "c", "l", "u",
     "d", "e", " ", "d", "s", "4", "-", "s", "c", "a", "l", "e", "-", "f",
     "o", "n", "t", "-", "c", "l", "a", "s", "s", "(", "t", ",", " ", "m",
     ")", ";" >>

\* $bad: (1: x, $v: x, #f: x, a%: x, -x: x, a b: x, f(x): x, k;: x, 12px: x, 3rem: x, ok: x) !default;\n@include style-class(t, bad);\n.9x { } .-y { } .fine {
Unit_filter ==
  << "$", "b", "a", "d", ":", " ", "(", "1", ":", " ", "x", ",", " ", "$",
     "v", ":", " ", "x", ",", " ", "#", "f", ":", " ", "x", ",", " ", "a",
     "%", ":", " ", "x", ",", " ", "-", "x", ":", " ", "x", ",", " ", "a",
     " ", "b", ":", " ", "x", ",", " ", "f", "(", "x", ")", ":", " ", "x",
     ",", " ", "k", ";", ":", " ", "x", ",", " ", "1", "2", "p", "x", ":",
     " ", "x", ",", " ", "3", "r", "e", "m", ":", " ", "x", ",", " ", "o",
     "k", ":", " ", "x", ")", " ", "!", "d", "e", "f", "a", "u", "l", "t",
     ";", "\n", "@", "i", "n", "c", "l", "u", "d", "e", " ", "s", "t", "y",
     "l", "e", "-", "c", "l", "a", "s", "s", "(", "t", ",", " ", "b", "a",
     "d", ")", ";", "\n", ".", "9", "x", " ", "{", " ", "}", " ", ".", "-",
     "y", " ", "{", " ", "}", " ", ".", "f", "i", "n", "e", " ", "{" >>

\* $u: (a: 1, b\n$w: (solo, : 3, k: 4) !default;\n@include style-class();\n@include ds4-scale-class(a);\n@include ds4-scale-font-class(x, f(w));\n@include nothing(w);
Unit_malformed ==
  << "$", "u", ":", " ", "(", "a", ":", " ", "1", ",", " ", "b", "\n", "$",
     "w", ":", " ", "(", "s", "o", "l", "o", ",", " ", ":", " ", "3", ",",
     " ", "k", ":", " ", "4", ")", " ", "!", "d", "e", "f", "a", "u", "l",
     "t", ";", "\n", "@", "i", "n", "c", "l", "u", "d", "e", " ", "s", "t",
     "y", "l", "e", "-", "c", "l", "a", "s", "s", "(", ")", ";", "\n", "@",
     "i", "n", "c", "l", "u", "d", "e", " ", "d", "s", "4", "-", "s", "c",
     "a", "l", "e", "-", "c", "l", "a", "s", "s", "(", "a", ")", ";", "\n",
     "@", "i", "n", "c", "l", "u", "d", "e", " ", "d", "s", "4", "-", "s",
     "c", "a", "l", "e", "-", "f", "o", "n", "t", "-", "c", "l", "a", "s",
     "s", "(", "x", ",", " ", "f", "(", "w", ")", ")", ";", "\n", "@", "i",
     "n", "c", "l", "u", "d", "e", " ", "n", "o", "t", "h", "i", "n", "g",
     "(", "w", ")", ";" >>

\* @include style-class(x, (b);\n.z {
Unit_unbalanced ==
  << "@", "i", "n", "c", "l", "u", "d", "e", " ", "s", "t", "y", "l", "e",
     "-", "c", "l", "a", "s", "s", "(", "x", ",", " ", "(", "b", ")", ";",
     "\n", ".", "z", " ", "{" >>

\* $q: ("": 1, ok: 2) !default;
Unit_emptyKey ==
  << "$", "q", ":", " ", "(", "\"", "\"", ":", " ", "1", ",", " ", "o", "k",
     ":", " ", "2", ")", " ", "!", "d", "e", "f", "a", "u", "l", "t", ";" >>

\* $r: (sm: 2px, md: 4px,) !default;\n@include ds4-scale-border-radius-class(r);
Unit_trailingComma ==
  << "$", "r", ":", " ", "(", "s", "m", ":", " ", "2", "p", "x", ",", " ",
     "m", "d", ":", " ", "4", "p", "x", ",", ")", " ", "!", "d", "e", "f",
     "a", "u", "l", "t", ";", "\n", "@", "i", "n", "c", "l", "u", "d", "e",
     " ", "d", "s", "4", "-", "s", "c", "a", "l", "e", "-", "b", "o", "r",
     "d", "e", "r", "-", "r", "a", "d", "i", "u", "s", "-", "c", "l", "a",
     "s", "s", "(", "r", ")", ";" >>

Corpus ==
  {Unit_spacing, Unit_button, Unit_specMixin, Unit_bareMixin,
   Unit_maps, Unit_useMaps, Unit_filter, Unit_malformed,
   Unit_unbalanced, Unit_emptyKey, Unit_trailingComma}

---------------------------------------------------------------------------
(* Bounds of the model.                                                    *)

\* the most files one call of parseScssFiles is given
MaxUnits == 2

\* the most calls of parseScssFiles made over the same files
MaxCalls == 2

RECURSIVE SeqsUpTo(_, _)
SeqsUpTo(S, n) ==
  IF n = 0 THEN {<< >>}
  ELSE LET shorter == SeqsUpTo(S, n - 1)
       IN  shorter \cup {Append(s, x) : s \in shorter, x \in S}

FileLists == SeqsUpTo(Corpus, MaxUnits)

---------------------------------------------------------------------------
(* PassSpec: calls of parseScssFiles, one step per RegExp.exec.            *)
(* phase is the loop the call is in: "variable", "mixin", "class", then    *)
(* "return" at the return statement and "returned" after it; lastIndex is  *)
(* the lastIndex of the regular expression of that loop.                   *)

\* the server is not part of a PassSpec behaviour
ServerIdle ==
  /\ initState = "created"
  /\ hasConfigurationCapability = FALSE
  /\ scssFolder = << >>
  /\ scssClasses = << >>
  /\ clientConfig = << >>
  /\ clientFolders = [null |-> TRUE, folders |-> << >>]
  /\ runs = << >>
  /\ completions = << >>

\* where a call starts: the first file's variable loop, or the return
\* statement when there is no file
entryPhase(fs) == IF fs = << >> THEN "return" ELSE "variable"

PassInit ==
  /\ files \in FileLists
  /\ fileIdx = 1
  /\ phase = entryPhase(files)
  /\ lastIndex = 0
  /\ classNames = entryClassNames
  /\ variables = entryVariables(EmptyObject)
  /\ outputs = << >>
  /\ ServerIdle

locals == [classNames |-> classNames, variables |-> variables]

VariableMatch ==
  /\ phase = "variable"
  /\ LET m == variableRegexExec(files[fileIdx], lastIndex)
     IN  /\ m.found
         /\ classNames' = variableBody(m, locals).classNames
         /\ variables' = variableBody(m, locals).variables
         /\ lastIndex' = m.end
  /\ UNCHANGED << files, fileIdx, phase, outputs, serverVars >>

VariableDone ==
  /\ phase = "variable"
  /\ ~ variableRegexExec(files[fileIdx], lastIndex).found
  /\ phase' = "mixin"
  /\ lastIndex' = 0
  /\ UNCHANGED << files, fileIdx, classNames, variables, outputs, serverVars >>

MixinMatch ==
  /\ phase = "mixin"
  /\ LET m == mixinCallRegexExec(files[fileIdx], lastIndex)
     IN  /\ m.found
         /\ classNames' = mixinBody(m, locals).classNames
         /\ lastIndex' = m.end
  /\ UNCHANGED << files, fileIdx, phase, variables, outputs, serverVars >>

MixinDone ==
  /\ phase = "mixin"
  /\ ~ mixinCallRegexExec(files[fileIdx], lastIndex).found
  /\ phase' = "class"
  /\ lastIndex' = 0
  /\ UNCHANGED << files, fileIdx, classNames, variables, outputs, serverVars >>

ClassMatch ==
  /\ phase = "class"
  /\ LET m == classRegexExec(files[fileIdx], lastIndex)
     IN  /\ m.found
         /\ classNames' = classBody(m, locals).classNames
         /\ lastIndex' = m.end
  /\ UNCHANGED << files, fileIdx, phase, variables, outputs, serverVars >>

\* the class loop ends: the next file, or the return statement
ClassDone ==
  /\ phase = "class"
  /\ ~ classRegexExec(files[fileIdx], lastIndex).found
  /\ fileIdx' = fileIdx + 1
  /\ phase' = IF fileIdx = Len(files) THEN "return" ELSE "variable"
  /\ lastIndex' = 0
  /\ UNCHANGED << files, classNames, variables, outputs, serverVars >>

\* return Array.from(classNames)
Return ==
  /\ phase = "return"
  /\ outputs' = Append(outputs, classNames)
  /\ phase' = "returned"
  /\ UNCHANGED << files, fileIdx, lastIndex, classNames, variables, serverVars >>

\* the caller calls parseScssFiles again with the same files
CallAgain ==
  /\ phase = "returned"
  /\ Len(outputs) < MaxCalls
  /\ fileIdx' = 1
  /\ phase' = entryPhase(files)
  /\ lastIndex' = 0
  /\ classNames' = entryClassNames
  /\ variables' = entryVariables(variables)
  /\ UNCHANGED << files, outputs, serverVars >>

PassNext ==
  \/ VariableMatch
  \/ VariableDone
  \/ MixinMatch
  \/ MixinDone
  \/ ClassMatch
  \/ ClassDone
  \/ Return
  \/ CallAgain

PassSpec == PassInit /\ [][PassNext]_vars

---------------------------------------------------------------------------
(* Properties of a call of parseScssFiles, checked under PassSpec.         *)

\* btn-red-1
n_btn_red_1 ==
  << "b", "t", "n", "-", "r", "e", "d", "-", "1" >>

\* btn-red-2
n_btn_red_2 ==
  << "b", "t", "n", "-", "r", "e", "d", "-", "2" >>

\* btn-blue-1
n_btn_blue_1 ==
  << "b", "t", "n", "-", "b", "l", "u", "e", "-", "1" >>

\* btn-blue-2
n_btn_blue_2 ==
  << "b", "t", "n", "-", "b", "l", "u", "e", "-", "2" >>

\* fine
n_fine ==
  << "f", "i", "n", "e" >>

\* ok
n_ok ==
  << "o", "k" >>

\* sm
n_sm ==
  << "s", "m" >>

\* lg
n_lg ==
  << "l", "g" >>

\* md
n_md ==
  << "m", "d" >>

\* every string of the result set so far and of every returned array
AllNames == Range(classNames) \cup UNION {Range(outputs[k]) : k \in 1..Len(outputs)}

\* the last array returned
LastOutput == outputs[Len(outputs)]

\* the shapes the filter is to keep out, spelled out one by one
BadShape(name) ==
  \/ /\ name # << >>
     /\ \/ name[1] \in Digit \cup {"$", "#", "-"}
        \/ name[Len(name)] = ";"
  \/ \E k \in 1..Len(name) : name[k] \in {"$", "%", "(", ")"} \cup Space
  \/ /\ name # << >>
     /\ \E d \in 1..Len(name) :
          /\ \A k \in 1..d : name[k] \in Digit
          /\ SubSeq(name, d + 1, Len(name)) \in
               {<< >>, << "p", "x" >>, << "r", "e", "m" >>}

\* C1: at every point of a call, and in every array a call returned, every
\* string of the result set passes isValidClassName, whichever of the three
\* producers added it: none starts with a digit, "$", "#" or "-", holds
\* "$", "%", white space or a parenthesis, ends with ";", or is all digits,
\* <digits>px or <digits>rem.
C1_OnlyValidNames ==
  \A name \in AllNames : isValidClassName(name) /\ ~ BadShape(name)

\* a call over the file whose map keys, mixin expansion and selectors hold
\* every rejected shape has returned, and only "ok" and "fine" came through
C1_Witness ==
  /\ phase = "returned"
  /\ files = << Unit_filter >>
  /\ LastOutput = << n_ok, n_fine >>

\* C2: after the two maps $color and $scale are declared, the invocation
\* @include ds4-scale-class("btn-", $color, $scale); of the same file puts
\* btn-red-1, btn-red-2, btn-blue-1 and btn-blue-2 in the output.
C2_SigilMixinExpands ==
  (phase = "returned" /\ Unit_specMixin \in Range(files))
    => {n_btn_red_1, n_btn_red_2, n_btn_blue_1, n_btn_blue_2}
         \subseteq Range(LastOutput)

\* the names of the maps a text declares
RECURSIVE declaredFrom(_, _)
declaredFrom(c, last) ==
  LET m == variableRegexExec(c, last)
  IN  IF m.found THEN {m.variableName} \cup declaredFrom(c, m.end) ELSE {}

\* C3: while the mixin invocations of a file are expanded, the symbol table
\* holds only maps that this file declares.
C3_SymbolTableIsLocal ==
  phase = "mixin" =>
    \A k \in 1..Len(variables) :
      variables[k].key \in declaredFrom(files[fileIdx], 0)

\* the files in every order
Reorderings(fs) ==
  {[i \in 1..Len(fs) |-> fs[p[i]]] : p \in Permutations(1..Len(fs))}

\* C5: the set of names a call returns is the same for every order of the
\* same files.
C5_OrderIndependent ==
  phase = "returned" =>
    \A gs \in Reorderings(files) :
      Range(parseScssFiles(gs)) = Range(LastOutput)

IsPrefix(a, b) == Len(a) <= Len(b) /\ SubSeq(b, 1, Len(a)) = a

NoDuplicates(s) == \A i, j \in 1..Len(s) : i # j => s[i] # s[j]

phaseRank(p) ==
  CASE p = "variable" -> 1 [] p = "mixin" -> 2 [] p = "class" -> 3
    [] p = "return" -> 4 [] p = "returned" -> 5

\* the place of the scan: file, then loop, then the position in the text
PlaceNotAfter(f1, p1, i1, f2, p2, i2) ==
  \/ f1 < f2
  \/ (f1 = f2 /\ phaseRank(p1) < phaseRank(p2))
  \/ (f1 = f2 /\ p1 = p2 /\ i1 <= i2)

\* one step of a call: the scan moves forward through the files in the order
\* given, in each file through the variable loop, the mixin loop and the class
\* loop, in each loop from left to right; the result set only grows at its
\* end, and only in a step that consumed a match further right; the array
\* returned is the result set as it stands
OrderedStep ==
  /\ IsPrefix(classNames, classNames')
  /\ PlaceNotAfter(fileIdx, phase, lastIndex, fileIdx', phase', lastIndex')
  /\ classNames' # classNames =>
       /\ fileIdx' = fileIdx
       /\ phase' = phase
       /\ lastIndex' > lastIndex
  /\ outputs' # outputs => outputs' = Append(outputs, classNames)

\* C6: the returned sequence is duplicate-free and in first-insertion order:
\* files in the order supplied, within a file the variable-map keys, then the
\* mixin expansions, then the literal selectors, each scanned left to right,
\* and a name already admitted keeps its place.
C6_FirstInsertionOrder ==
  /\ [](NoDuplicates(classNames)
        /\ \A k \in 1..Len(outputs) : NoDuplicates(outputs[k]))
  /\ [][phase # "returned" => OrderedStep]_vars

\* "sm", found again in the second file, stays first; the keys of the second
\* file's map stand before the name its mixin adds
C6_Witness ==
  /\ phase = "returned"
  /\ files = << Unit_spacing, Unit_trailingComma >>
  /\ LastOutput = << n_sm, n_lg, n_md, << >> >>

\* C7: a second call over the same files returns exactly what the first
\* returned, the same names in the same order.
C7_SecondCallSame ==
  \A i, j \in 1..Len(outputs) : outputs[i] = outputs[j]

\* two calls have returned over files whose first uses maps that only the
\* second declares
C7_Witness ==
  /\ Len(outputs) = 2
  /\ files = << Unit_useMaps, Unit_maps >>
  /\ phase = "returned"

\* C9: the empty string is never in the result set.
C9_NoEmptyName == << >> \notin AllNames

---------------------------------------------------------------------------
(* The parseScssFiles of src/server.ts: no symbol table and no class loop; *)
(* a mixin invocation adds its first argument, and style-class looks its   *)
(* map up with a regular expression built from its second argument.        *)

\* balance of the parentheses of a pattern text, read left to right; -1 once
\* a ")" has no "(" before it
RECURSIVE parenDepth(_, _)
parenDepth(s, d) ==
  IF d < 0 \/ s = << >> THEN d
  ELSE parenDepth(Tail(s),
                  CASE Head(s) = "(" -> d + 1
                    [] Head(s) = ")" -> d - 1
                    [] OTHER -> d)

\* new RegExp(`\\$${variableName}:\\s*\\(((...))\\)\\s*!default;`) throws a
\* SyntaxError: the parentheses of variableName do not pair up.  (The names
\* of the modelled texts hold no other character a pattern reads specially.)
RegExpThrows(variableName) == parenDepth(variableName, 0) # 0

\* what the variableName part of the pattern matches: its characters, the
\* parentheses being groups
patternText(variableName) ==
  SelectSeq(variableName, LAMBDA ch : ch \notin {"(", ")"})

\* the end of the group that opens at index i of a balanced name
RECURSIVE groupEnd(_, _, _)
groupEnd(s, j, d) ==
  LET d2 == CASE s[j] = "(" -> d + 1 [] s[j] = ")" -> d - 1 [] OTHER -> d
  IN  IF d2 = 0 THEN j ELSE groupEnd(s, j + 1, d2)

\* the dynamic pattern anchored at index i; match[1] is the first group of
\* the pattern: a group of variableName when it has one, else the map body
dynamicMatchAt(c, i, variableName) ==
  LET word == patternText(variableName)
      e == i + 1 + Len(word)
      p == RunEnd(c, e + 1, Space)
      q == variableBodyEnd(c, p + 1)
      g == IndexOf(variableName, "(", 1)
  IN  IF /\ c[i] = "$"
         /\ HasAt(c, i + 1, word)
         /\ e <= Len(c) /\ c[e] = ":"
         /\ p <= Len(c) /\ c[p] = "("
         /\ q <= Len(c)
      THEN [found |-> TRUE,
            group1 |-> IF g <= Len(variableName)
                       THEN patternText(SubSeq(variableName, g,
                                               groupEnd(variableName, g, 0)))
                       ELSE SubSeq(c, p + 1, q - 1)]
      ELSE NoMatch

\* variableRegex.exec(content) of a pattern without the g flag
dynamicRegexExec(c, variableName) ==
  LET at == {i \in 1..Len(c) : dynamicMatchAt(c, i, variableName).found}
  IN  IF at = {} THEN NoMatch ELSE dynamicMatchAt(c, Least(at), variableName)

\* addClassesFromVariable(content, variableName, classNames) of server.ts;
\* the result is [threw, classNames]
srv_addClassesFromVariable(c, variableName, set) ==
  IF RegExpThrows(variableName) THEN [threw |-> TRUE, classNames |-> set]
  ELSE LET m == dynamicRegexExec(c, variableName)
       IN  [threw |-> FALSE,
            classNames |-> IF m.found
                           THEN addClassesFromEntries(split(m.group1, ","), set)
                           ELSE set]

\* mixinName.startsWith('ds4-scale-') || mixinName === 'style-class'
srv_isKnownMixin(mixinName) ==
  HasAt(mixinName, 1, s_ds4_scale_) \/ mixinName = s_style_class

\* body of the while loop over mixinCallRegex of server.ts
srv_mixinBody(m, c, set) ==
  LET pieces == split(m.mixinArgs, ",")
      args   == [k \in 1..Len(pieces) |-> trim(pieces[k])]
      prefix == trim(stripQuotes(args[1]))
      withPrefix == addIfValid(set, prefix)
  IN  IF ~ srv_isKnownMixin(m.mixinName)
      THEN [threw |-> FALSE, classNames |-> set]
      ELSE IF m.mixinName = s_style_class /\ Len(args) > 1
      THEN srv_addClassesFromVariable(
             c, trim(stripQuotesAndSigil(args[2])), withPrefix)
      ELSE [threw |-> FALSE, classNames |-> withPrefix]

\* body of the while loop over variableRegex of server.ts
srv_variableBody(m, set) ==
  addClassesFromEntries(split(m.variableContent, ","), set)

(* SrvPassSpec: one call of the parseScssFiles of src/server.ts, one step   *)
(* per RegExp.exec of its two loops.  phase "thrown": the call ended with   *)
(* the SyntaxError of new RegExp.                                           *)

SrvInit ==
  /\ files \in FileLists
  /\ fileIdx = 1
  /\ phase = entryPhase(files)
  /\ lastIndex = 0
  /\ classNames = entryClassNames
  /\ variables = EmptyObject
  /\ outputs = << >>
  /\ ServerIdle

SrvVariableMatch ==
  /\ phase = "variable"
  /\ LET m == variableRegexExec(files[fileIdx], lastIndex)
     IN  /\ m.found
         /\ classNames' = srv_variableBody(m, classNames)
         /\ lastIndex' = m.end
  /\ UNCHANGED << files, fileIdx, phase, variables, outputs, serverVars >>

SrvVariableDone ==
  /\ phase = "variable"
  /\ ~ variableRegexExec(files[fileIdx], lastIndex).found
  /\ phase' = "mixin"
  /\ lastIndex' = 0
  /\ UNCHANGED << files, fileIdx, classNames, variables, outputs, serverVars >>

SrvMixinMatch ==
  /\ phase = "mixin"
  /\ LET m == mixinCallRegexExec(files[fileIdx], lastIndex)
     IN  /\ m.found
         /\ ~ srv_mixinBody(m, files[fileIdx], classNames).threw
         /\ classNames' = srv_mixinBody(m, files[fileIdx], classNames).classNames
         /\ lastIndex' = m.end
  /\ UNCHANGED << files, fileIdx, phase, variables, outputs, serverVars >>

\* the SyntaxError leaves parseScssFiles: nothing is returned
SrvMixinThrow ==
  /\ phase = "mixin"
  /\ LET m == mixinCallRegexExec(files[fileIdx], lastIndex)
     IN  /\ m.found
         /\ srv_mixinBody(m, files[fileIdx], classNames).threw
         /\ classNames' = srv_mixinBody(m, files[fileIdx], classNames).classNames
  /\ phase' = "thrown"
  /\ UNCHANGED << files, fileIdx, lastIndex, variables, outputs, serverVars >>

\* the mixin loop ends: the next file, or the return statement
SrvMixinDone ==
  /\ phase = "mixin"
  /\ ~ mixinCallRegexExec(files[fileIdx], lastIndex).found
  /\ fileIdx' = fileIdx + 1
  /\ phase' = IF fileIdx = Len(files) THEN "return" ELSE "variable"
  /\ lastIndex' = 0
  /\ UNCHANGED << files, classNames, variables, outputs, serverVars >>

SrvReturn ==
  /\ phase = "return"
  /\ outputs' = Append(outputs, classNames)
  /\ phase' = "returned"
  /\ UNCHANGED << files, fileIdx, lastIndex, classNames, variables, serverVars >>

SrvNext ==
  \/ SrvVariableMatch
  \/ SrvVariableDone
  \/ SrvMixinMatch
  \/ SrvMixinThrow
  \/ SrvMixinDone
  \/ SrvReturn

SrvPassSpec == SrvInit /\ [][SrvNext]_vars

\* C4: whatever the shape of the text (an unterminated map, an entry without
\* a colon, a mixin invocation with empty, missing or nested-parenthesis
\* arguments), a call of parseScssFiles does not throw: it goes on to the
\* rest of the file and to the next files, and returns.
C4_NeverThrows == phase # "thrown"

---------------------------------------------------------------------------
(* The language server: the handlers of the connection and the runs of     *)
(* updateSCSSClasses, each suspended at its awaits.  A handler, and the     *)
(* part of a run between two awaits, runs to completion: it is one step.   *)

\* the most runs of updateSCSSClasses started in one behaviour
MaxRuns == 3

\* file:///w
WorkspaceUri ==
  << "f", "i", "l", "e", ":", "/", "/", "/", "w" >>

\* /w
p_w ==
  << "/", "w" >>

\* /w/base.scss
p_w_base ==
  << "/", "w", "/", "b", "a", "s", "e", ".", "s", "c", "s", "s" >>

\* /w/notes.txt
p_w_notes ==
  << "/", "w", "/", "n", "o", "t", "e", "s", ".", "t", "x", "t" >>

\* /w/themes
p_w_themes ==
  << "/", "w", "/", "t", "h", "e", "m", "e", "s" >>

\* /w/themes/dark.scss
p_w_themes_dark ==
  << "/", "w", "/", "t", "h", "e", "m", "e", "s", "/", "d", "a", "r", "k",
     ".", "s", "c", "s", "s" >>

\* base.scss
f_base ==
  << "b", "a", "s", "e", ".", "s", "c", "s", "s" >>

\* notes.txt
f_notes ==
  << "n", "o", "t", "e", "s", ".", "t", "x", "t" >>

\* themes
f_themes ==
  << "t", "h", "e", "m", "e", "s" >>

\* dark.scss
f_dark ==
  << "d", "a", "r", "k", ".", "s", "c", "s", "s" >>

\* missing
f_missing ==
  << "m", "i", "s", "s", "i", "n", "g" >>

\* the disk the server reads: a workspace with a stylesheet, a text file and
\* a folder that holds a second stylesheet
Disk ==
  {[path |-> p_w, kind |-> "dir",
    entries |-> << f_base, f_notes, f_themes >>, content |-> << >>],
   [path |-> p_w_base, kind |-> "file", entries |-> << >>, content |-> Unit_maps],
   [path |-> p_w_notes, kind |-> "file", entries |-> << >>, content |-> Unit_button],
   [path |-> p_w_themes, kind |-> "dir", entries |-> << f_dark >>, content |-> << >>],
   [path |-> p_w_themes_dark, kind |-> "file", entries |-> << >>,
    content |-> Unit_button]}

\* fs.statSync(path).isDirectory()
isDirectory(path) == \E n \in Disk : n.path = path /\ n.kind = "dir"

\* fs.readdirSync(path)
readdirSync(path) == (CHOOSE n \in Disk : n.path = path).entries

\* fs.readFileSync(path, 'utf-8')
readFileSync(path) == (CHOOSE n \in Disk : n.path = path).content

\* path.join of a path and a name that holds no separator; an empty name
\* leaves the path as it is
pathJoin(dir, name) == IF name = << >> THEN dir ELSE dir \o << "/" >> \o name

\* path.extname: from the last "." on, unless the name has none or starts
\* with its only one
extname(name) ==
  LET dots == {j \in 1..Len(name) : name[j] = "."}
      last == CHOOSE j \in dots : \A k \in dots : k <= j
  IN  IF dots = {} \/ last = 1 THEN << >> ELSE SubSeq(name, last, Len(name))

\* uri.replace('file://', ''): the first occurrence is taken out
removeFileScheme(uri) ==
  LET at == {i \in 1..Len(uri) : HasAt(uri, i, s_file_scheme)}
  IN  IF at = {} THEN uri
      ELSE SubSeq(uri, 1, Least(at) - 1)
           \o SubSeq(uri, Least(at) + Len(s_file_scheme), Len(uri))

\* traverseDirectory: the .scss files under dirPath, in directory order
RECURSIVE traverseEntries(_, _)
traverseEntries(dirPath, entries) ==
  IF entries = << >> THEN << >>
  ELSE LET file == Head(entries)
           filePath == pathJoin(dirPath, file)
           found ==
             IF isDirectory(filePath)
             THEN traverseEntries(filePath, readdirSync(filePath))
             ELSE IF extname(file) = s_scss_ext THEN << filePath >> ELSE << >>
       IN  found \o traverseEntries(dirPath, Tail(entries))

\* findScssFiles reads the module-level scssFolder; readdirSync of a search
\* path that is no directory throws
findScssFiles(workspaceUri, folder) ==
  LET searchPath == pathJoin(removeFileScheme(workspaceUri), folder)
  IN  [searchPath |-> searchPath,
       threw |-> ~ isDirectory(searchPath),
       scssFiles |-> IF isDirectory(searchPath)
                     THEN traverseEntries(searchPath, readdirSync(searchPath))
                     ELSE << >>]

\* the texts parseScssFiles reads from the paths it is given
readAll(paths) == [k \in 1..Len(paths) |-> readFileSync(paths[k])]

\* what scssClasses = parseScssFiles(scssFiles) assigns
publishedClasses_afterFirstFile(paths) ==
  parseScssFiles(SubSeq(readAll(paths), 1, 1))

publishedClasses(paths) == parseScssFiles(readAll(paths))

\* the designSystemAssistant.scssFolder setting: absent, or a folder name
NoSetting == [defined |-> FALSE, text |-> << >>]

Setting(text) == [defined |-> TRUE, text |-> text]

ConfigValues == {NoSetting, Setting(f_themes), Setting(f_missing)}

\* config.scssFolder || ""
scssFolderOf(config) == IF config.defined THEN config.text ELSE << >>

\* what the client answers to getWorkspaceFolders: null, no folder, or the
\* workspace
NullFolders == [null |-> TRUE, folders |-> << >>]

FolderReplies ==
  {NullFolders,
   [null |-> FALSE, folders |-> << >>],
   [null |-> FALSE, folders |-> << WorkspaceUri >>]}

\* parseScssFiles is not running in a ServerSpec behaviour
PassIdle ==
  /\ files = << >>
  /\ fileIdx = 1
  /\ phase = "idle"
  /\ lastIndex = 0
  /\ classNames = << >>
  /\ variables = EmptyObject
  /\ outputs = << >>

ServerInit ==
  /\ initState = "created"
  /\ hasConfigurationCapability = FALSE
  /\ scssFolder = << >>
  /\ scssClasses = << >>
  /\ clientConfig \in ConfigValues
  /\ clientFolders \in FolderReplies
  /\ runs = << >>
  /\ completions = << >>
  /\ PassIdle

\* updateSCSSClasses up to its first await
startedRun ==
  [pc |-> IF hasConfigurationCapability
          THEN "getConfiguration" ELSE "getWorkspaceFolders",
   answered |-> FALSE,
   config |-> NoSetting,
   searchPath |-> << >>]

onInitialize(capability) ==
  /\ initState = "created"
  /\ hasConfigurationCapability' = capability
  /\ initState' = "initializing"
  /\ UNCHANGED << scssFolder, scssClasses, clientConfig, clientFolders, runs,
                  completions, passVars >>

onInitialized ==
  /\ initState = "initializing"
  /\ initState' = "initialized"
  /\ runs' = Append(runs, startedRun)
  /\ UNCHANGED << hasConfigurationCapability, scssFolder, scssClasses,
                  clientConfig, clientFolders, completions, passVars >>

\* the user changed the setting to v and the client's notification arrived
onDidChangeConfiguration(v) ==
  /\ initState = "initialized"
  /\ Len(runs) < MaxRuns
  /\ clientConfig' = v
  /\ runs' = Append(runs, startedRun)
  /\ UNCHANGED << initState, hasConfigurationCapability, scssFolder,
                  scssClasses, clientFolders, completions, passVars >>

\* the client answers a run's getConfiguration with the setting of the moment
ConfigurationReply(r) ==
  /\ runs[r].pc = "getConfiguration"
  /\ ~ runs[r].answered
  /\ runs' = [runs EXCEPT ![r].answered = TRUE, ![r].config = clientConfig]
  /\ UNCHANGED << initState, hasConfigurationCapability, scssFolder,
                  scssClasses, clientConfig, clientFolders, completions,
                  passVars >>

\* the run resumes after its first await: scssFolder = config.scssFolder || ""
AfterGetConfiguration(r) ==
  /\ runs[r].pc = "getConfiguration"
  /\ runs[r].answered
  /\ scssFolder' = scssFolderOf(runs[r].config)
  /\ runs' = [runs EXCEPT ![r].pc = "getWorkspaceFolders"]
  /\ UNCHANGED << initState, hasConfigurationCapability, scssClasses,
                  clientConfig, clientFolders, completions, passVars >>

\* the run resumes after its second await with null: nothing to do
AfterGetWorkspaceFolders_null(r) ==
  /\ runs[r].pc = "getWorkspaceFolders"
  /\ clientFolders.null
  /\ runs' = [runs EXCEPT ![r].pc = "done"]
  /\ UNCHANGED << initState, hasConfigurationCapability, scssFolder,
                  scssClasses, clientConfig, clientFolders, completions,
                  passVars >>

\* ... with no folder: workspaceFolders[0].uri throws, the run is rejected
AfterGetWorkspaceFolders_empty(r) ==
  /\ runs[r].pc = "getWorkspaceFolders"
  /\ ~ clientFolders.null
  /\ clientFolders.folders = << >>
  /\ runs' = [runs EXCEPT ![r].pc = "rejected"]
  /\ UNCHANGED << initState, hasConfigurationCapability, scssFolder,
                  scssClasses, clientConfig, clientFolders, completions,
                  passVars >>

\* ... with a folder whose search path is no directory: readdirSync throws
AfterGetWorkspaceFolders_noDirectory(r) ==
  /\ runs[r].pc = "getWorkspaceFolders"
  /\ ~ clientFolders.null
  /\ clientFolders.folders # << >>
  /\ LET found == findScssFiles(clientFolders.folders[1], scssFolder)
     IN  /\ found.threw
         /\ runs' = [runs EXCEPT ![r].pc = "rejected",
                                 ![r].searchPath = found.searchPath]
  /\ UNCHANGED << initState, hasConfigurationCapability, scssFolder,
                  scssClasses, clientConfig, clientFolders, completions,
                  passVars >>

\* ... with a folder that is scanned: scssClasses = parseScssFiles(scssFiles)
AfterGetWorkspaceFolders_scan(r) ==
  /\ runs[r].pc = "getWorkspaceFolders"
  /\ ~ clientFolders.null
  /\ clientFolders.folders # << >>
  /\ LET found == findScssFiles(clientFolders.folders[1], scssFolder)
     IN  /\ ~ found.threw
         /\ scssClasses' = publishedClasses(found.scssFiles)
         /\ runs' = [runs EXCEPT ![r].pc = "done",
                                 ![r].searchPath = found.searchPath]
  /\ UNCHANGED << initState, hasConfigurationCapability, scssFolder,
                  clientConfig, clientFolders, completions, passVars >>

\* the completion items of the moment
onCompletion ==
  /\ initState # "created"
  /\ completions' = [k \in 1..Len(scssClasses) |->
                       [label |-> scssClasses[k], kind |-> "Class"]]
  /\ UNCHANGED << initState, hasConfigurationCapability, scssFolder,
                  scssClasses, clientConfig, clientFolders, runs, passVars >>

ServerNext ==
  \/ \E capability \in BOOLEAN : onInitialize(capability)
  \/ onInitialized
  \/ \E v \in ConfigValues : onDidChangeConfiguration(v)
  \/ \E r \in 1..Len(runs) : ConfigurationReply(r)
  \/ \E r \in 1..Len(runs) : AfterGetConfiguration(r)
  \/ \E r \in 1..Len(runs) : AfterGetWorkspaceFolders_null(r)
  \/ \E r \in 1..Len(runs) : AfterGetWorkspaceFolders_empty(r)
  \/ \E r \in 1..Len(runs) : AfterGetWorkspaceFolders_noDirectory(r)
  \/ \E r \in 1..Len(runs) : AfterGetWorkspaceFolders_scan(r)
  \/ onCompletion

ServerSpec == ServerInit /\ [][ServerNext]_vars

---------------------------------------------------------------------------
(* Properties of the server, checked under ServerSpec.                     *)

\* the result of a whole extraction pass over the stylesheets under the
\* search path of setting v
passResult(v) ==
  parseScssFiles(readAll(findScssFiles(WorkspaceUri, scssFolderOf(v)).scssFiles))

\* the results of the finished passes there can be: one per setting whose
\* search path can be scanned
CompleteResults ==
  {passResult(v) :
     v \in {w \in ConfigValues :
              ~ findScssFiles(WorkspaceUri, scssFolderOf(w)).threw}}

\* the labels of the completion items last handed out
CompletionLabels == [k \in 1..Len(completions) |-> completions[k].label]

\* a run publishes in this step: it leaves its second await and is done
SomeRunFinishes ==
  \E r \in 1..Len(runs) :
    /\ runs[r].pc = "getWorkspaceFolders"
    /\ runs'[r].pc = "done"

\* C8: under every interleaving of onInitialized, onDidChangeConfiguration,
\* onCompletion and the resumptions of the runs, the list the completion
\* handler reads is the initial empty list or the complete result of one
\* finished pass, the completion handler never hands out anything else, and
\* the list changes only in the step in which a run finishes its pass.
C8_SnapshotConsistent ==
  /\ [](/\ scssClasses \in {<< >>} \cup CompleteResults
        /\ CompletionLabels \in {<< >>} \cup CompleteResults)
  /\ [][scssClasses' # scssClasses => SomeRunFinishes]_vars

\* the completion handler has handed out the result of the pass over the
\* whole workspace while another run is still suspended
C8_Witness ==
  /\ scssClasses = passResult(NoSetting)
  /\ Len(scssClasses) > 1
  /\ CompletionLabels = scssClasses
  /\ \E r \in 1..Len(runs) : runs[r].pc \in {"getConfiguration", "getWorkspaceFolders"}

\* C10: every run scans the search path of the setting it fetched itself,
\* and once all the runs are done scssClasses is the result for the setting
\* fetched by the run started last.
C10_LatestConfigurationWins ==
  hasConfigurationCapability =>
    /\ \A r \in 1..Len(runs) :
         runs[r].pc = "done" /\ ~ clientFolders.null =>
           runs[r].searchPath =
             findScssFiles(WorkspaceUri, scssFolderOf(runs[r].config)).searchPath
    /\ (/\ runs # << >>
        /\ ~ clientFolders.null
        /\ \A r \in 1..Len(runs) : runs[r].pc = "done")
         => scssClasses = passResult(runs[Len(runs)].config)

=============================================================================
